---- MODULE Spec2Model ----
(***************************************************************************)
(* Model of scripts/histogram_avg_hourly_per_site_day.py: the timestamp    *)
(* parser parse_ts and the straight-line pipeline of main (argument check, *)
(* load, record filter, site-day aggregation, report, day-level series,    *)
(* chart).                                                                 *)
(*                                                                         *)
(* Conventions of the model                                                *)
(*  - A numeric timestamp is held in thousands: the model value k stands   *)
(*    for the number 1000*k, because 10^12 is outside the range of the     *)
(*    model checker's integers.  The test "ts > 1e12" is then k > 10^9 and *)
(*    "ts / 1000.0" is the number k.                                       *)
(*  - A float is an exact rational [k |-> "fin", n, d] (reduced, d > 0) or *)
(*    one of the two non-finite values "inf" and "nan".                    *)
(*  - The ISO date string of a sample is a sequence of ASCII codes.        *)
(*  - An ISO timestamp string is held by its parts: the date and time it   *)
(*    spells, the number of fraction digits (0: no "."), and the text that *)
(*    follows the seconds and fraction ("", "Z", an offset, or junk).      *)
(***************************************************************************)
EXTENDS Integers, Sequences, FiniteSets, TLC

VARIABLES argv, pc, year, month, data, idx, filtered, totals, hours,
          site_day_avgs, day_to_site_avgs, sorted_days, x_values, y_values,
          stdout, exit_status, opened, images, plotted,
          accepted, p_sec, r_sec, r_ms

mainVars == <<argv, pc, year, month, data, idx, filtered, totals, hours,
              site_day_avgs, day_to_site_avgs, sorted_days, x_values,
              y_values, stdout, exit_status, opened, images, plotted,
              accepted>>
parseVars == <<p_sec, r_sec, r_ms>>
vars == <<mainVars, parseVars>>

(***************************************************************************)
(* Bounds of the model.                                                    *)
(***************************************************************************)
MaxRecs == 3
MaxSecK == 20

(***************************************************************************)
(* Exact arithmetic standing for Python floats.                            *)
(***************************************************************************)
Abs(x) == IF x < 0 THEN -x ELSE x

RECURSIVE GCD(_, _)
GCD(a, b) == IF b = 0 THEN a ELSE GCD(b, a % b)

Fin(n, d) == LET g == GCD(Abs(n), d)
             IN  [k |-> "fin", n |-> n \div g, d |-> d \div g]
Inf == [k |-> "inf", n |-> 0, d |-> 1]
NaN == [k |-> "nan", n |-> 0, d |-> 1]

NumAdd(a, b) ==
    IF a.k = "nan" \/ b.k = "nan" THEN NaN
    ELSE IF a.k = "inf" \/ b.k = "inf" THEN Inf
    ELSE Fin(a.n * b.d + b.n * a.d, a.d * b.d)

NumDiv(a, h) == IF a.k = "fin" THEN Fin(a.n, a.d * h) ELSE a

RECURSIVE NumSum(_)
NumSum(s) == IF s = <<>> THEN Fin(0, 1)
             ELSE NumAdd(Head(s), NumSum(Tail(s)))

mean(s) == NumDiv(NumSum(s), Len(s))

(***************************************************************************)
(* Calendar arithmetic of datetime (proleptic Gregorian, days counted from *)
(* 1970-01-01).                                                            *)
(***************************************************************************)
SecPerDay == 86400

civil_from_days(z0) ==
    LET z   == z0 + 719468
        era == z \div 146097
        doe == z - era * 146097
        yoe == (doe - (doe \div 1460) + (doe \div 36524) - (doe \div 146096)) \div 365
        doy == doe - (365 * yoe + (yoe \div 4) - (yoe \div 100))
        mp  == (5 * doy + 2) \div 153
        d   == doy - ((153 * mp + 2) \div 5) + 1
        m   == IF mp < 10 THEN mp + 3 ELSE mp - 9
        y   == yoe + era * 400 + (IF m <= 2 THEN 1 ELSE 0)
    IN  <<y, m, d>>

(***************************************************************************)
(* datetime values.  off is the UTC offset in minutes of an aware value;   *)
(* a naive value (aware = FALSE) carries no offset.  An exception raised   *)
(* by the parser is the value Raised.                                      *)
(***************************************************************************)
DateTime(ymd, sod, aware, off) ==
    [ok |-> TRUE, y |-> ymd[1], m |-> ymd[2], d |-> ymd[3], sod |-> sod,
     aware |-> aware, off |-> off]
Raised == [ok |-> FALSE, y |-> 0, m |-> 0, d |-> 0, sod |-> 0,
           aware |-> FALSE, off |-> 0]

\* datetime.fromtimestamp(x, tz=timezone.utc) for the number x = 1000*k
fromtimestamp_thousands(k) ==
    IF k < -62135596 \/ k > 253402300 THEN Raised
    ELSE DateTime(civil_from_days((5 * k) \div 432),
                  200 * ((5 * k) % 432), TRUE, 0)

\* datetime.fromtimestamp(x, tz=timezone.utc) for the number x = k
fromtimestamp_units(k) ==
    DateTime(civil_from_days(k \div SecPerDay), k % SecPerDay, TRUE, 0)

(***************************************************************************)
(* JSON values of the three logical fields.                                *)
(***************************************************************************)
\* timestamp values: a number (in thousands), a string, or null
TsNum(k) == [t |-> "num", v |-> k, iso |-> FALSE, y |-> 0, m |-> 0, d |-> 0,
             sod |-> 0, frac |-> 0, tail |-> "", off |-> 0]
TsStr(ymd, sod, frac, tail, off) ==
    [t |-> "str", v |-> 0, iso |-> TRUE, y |-> ymd[1], m |-> ymd[2],
     d |-> ymd[3], sod |-> sod, frac |-> frac, tail |-> tail, off |-> off]
TsText == [t |-> "str", v |-> 0, iso |-> FALSE, y |-> 0, m |-> 0, d |-> 0,
           sod |-> 0, frac |-> 0, tail |-> "junk", off |-> 0]
TsNull == [t |-> "null", v |-> 0, iso |-> FALSE, y |-> 0, m |-> 0, d |-> 0,
           sod |-> 0, frac |-> 0, tail |-> "", off |-> 0]

\* count values: a finite number, true/false (v = 1/0), NaN, Infinity, a
\* string, or null
CNum(v)  == [t |-> "num", v |-> v]
CBool(v) == [t |-> "bool", v |-> v]
CNaN  == [t |-> "nan", v |-> 0]
CInf  == [t |-> "inf", v |-> 0]
CStr  == [t |-> "str", v |-> 0]
CNull == [t |-> "null", v |-> 0]

\* site values: a string or a JSON array (an unhashable list)
SStr(v) == [t |-> "str", v |-> v]
SList == [t |-> "list", v |-> ""]

(***************************************************************************)
(* parse_ts                                                                *)
(***************************************************************************)
MsThreshold == 1000000000

\* ts.replace('Z', '+00:00')
replace_Z(s) == IF s.tail = "Z" THEN [s EXCEPT !.tail = "off", !.off = 0]
                ELSE s

\* ts.split('.')[0]
split_dot_head(s) == IF s.frac > 0 THEN [s EXCEPT !.frac = 0, !.tail = ""]
                     ELSE s

\* datetime.fromisoformat: the local fields the string spells, with the
\* offset it carries, if any; fraction digits are accepted in any number
fromisoformat(s) ==
    IF s.iso /\ s.tail \in {"", "off"}
    THEN DateTime(<<s.y, s.m, s.d>>, s.sod, s.tail = "off", s.off)
    ELSE Raised

\* parse_num with the test made on the magnitude of the number
parse_num_magnitude(k) ==
    IF Abs(k) > MsThreshold THEN fromtimestamp_units(k)
    ELSE fromtimestamp_thousands(k)

parse_num(k) ==
    IF k > MsThreshold THEN fromtimestamp_units(k)
    ELSE fromtimestamp_thousands(k)

parse_str(ts) ==
    LET first  == fromisoformat(replace_Z(ts))
        second == fromisoformat(replace_Z(split_dot_head(ts)))
    IN  IF first.ok THEN first ELSE second

parse_ts(ts) ==
    IF ts.t = "num" THEN parse_num(ts.v)
    ELSE IF ts.t = "str" THEN parse_str(ts)
    ELSE Raised

(***************************************************************************)
(* Field readers of main.                                                  *)
(***************************************************************************)
NoKey == ""
SiteAliases  == <<"site_id", "siteID", "site", "SITE_ID", "id">>
CountAliases == <<"counts", "count", "COUNT", "value">>
TsAliases    == <<"timestamp", "Timestamp", "TIMESTAMP", "date", "DATE">>

RECURSIVE FirstKey(_, _)
FirstKey(rec, ks) ==
    IF ks = <<>> THEN NoKey
    ELSE IF Head(ks) \in DOMAIN rec THEN Head(ks)
    ELSE FirstKey(rec, Tail(ks))

get_site_id(rec) ==
    LET k == FirstKey(rec, SiteAliases)
    IN  IF k = NoKey THEN [ok |-> FALSE, val |-> SList]
        ELSE [ok |-> TRUE, val |-> rec[k]]

get_counts(rec) ==
    LET k == FirstKey(rec, CountAliases)
    IN  IF k = NoKey THEN CNull ELSE rec[k]

get_timestamp(rec) ==
    LET k == FirstKey(rec, TsAliases)
    IN  IF k = NoKey THEN [ok |-> FALSE, val |-> TsNull]
        ELSE [ok |-> TRUE, val |-> rec[k]]

\* not (cnt is None or not isinstance(cnt, (int, float)) or cnt <= 0);
\* bool is a subclass of int, NaN <= 0 and Infinity <= 0 are false
count_ok(cnt) ==
    /\ cnt.t \in {"num", "bool", "nan", "inf"}
    /\ ~(cnt.t \in {"num", "bool"} /\ cnt.v <= 0)

\* float(cnt)
float(cnt) == IF cnt.t = "nan" THEN NaN
              ELSE IF cnt.t = "inf" THEN Inf
              ELSE Fin(cnt.v, 1)

\* month_ok with the month comparison left out
month_ok_year_only(dt, y, m) == dt.y = y

\* not (dt.year != year or dt.month != month)
month_ok(dt, y, m) == dt.y = y /\ dt.m = m

\* dt.date().isoformat(): "YYYY-MM-DD" as ASCII codes
Digit(n) == 48 + n
Dash == 45
isoformat(dt) ==
    <<Digit(dt.y \div 1000), Digit((dt.y \div 100) % 10),
      Digit((dt.y \div 10) % 10), Digit(dt.y % 10), Dash,
      Digit(dt.m \div 10), Digit(dt.m % 10), Dash,
      Digit(dt.d \div 10), Digit(dt.d % 10)>>

\* The body of the try block for one record: the sample appended to
\* filtered, or no sample when the record is skipped (continue, or an
\* exception caught by the except clause).
NoSample == <<>>
normalize(rec, y, m) ==
    LET cnt  == get_counts(rec)
        ts   == get_timestamp(rec)
        dt   == parse_ts(ts.val)
        site == get_site_id(rec)
    IN  IF ~count_ok(cnt) THEN NoSample
        ELSE IF ~ts.ok THEN NoSample
        ELSE IF ~dt.ok THEN NoSample
        ELSE IF ~month_ok(dt, y, m) THEN NoSample
        ELSE IF ~site.ok THEN NoSample
        ELSE <<[site |-> site.val, date |-> isoformat(dt),
                cnt |-> float(cnt)]>>
(***************************************************************************)
(* Dictionaries keep insertion order: a sequence of [key, val] entries.    *)
(***************************************************************************)
dict_keys(dct) == {dct[i].key : i \in 1..Len(dct)}
dict_pos(dct, key) == CHOOSE i \in 1..Len(dct) : dct[i].key = key
dict_get(dct, key, default) ==
    IF key \in dict_keys(dct) THEN dct[dict_pos(dct, key)].val ELSE default

\* totals[key] += cnt on a defaultdict(float)
totals_add(dct, key, cnt) ==
    IF key \in dict_keys(dct)
    THEN [dct EXCEPT ![dict_pos(dct, key)].val = NumAdd(@, cnt)]
    ELSE Append(dct, [key |-> key, val |-> NumAdd(Fin(0, 1), cnt)])

\* hours_add that does not count a repeated key again
hours_add_once(dct, key) ==
    IF key \in dict_keys(dct) THEN dct
    ELSE Append(dct, [key |-> key, val |-> 1])

\* hours[key] += 1 on a defaultdict(int)
hours_add(dct, key) ==
    IF key \in dict_keys(dct)
    THEN [dct EXCEPT ![dict_pos(dct, key)].val = @ + 1]
    ELSE Append(dct, [key |-> key, val |-> 1])

\* day_to_site_avgs[date_str].append(avg) on a defaultdict(list)
list_add(dct, key, avg) ==
    IF key \in dict_keys(dct)
    THEN [dct EXCEPT ![dict_pos(dct, key)].val = Append(@, avg)]
    ELSE Append(dct, [key |-> key, val |-> <<avg>>])

\* hash((site_id, date_str)): a list is unhashable
hashable(key) == key[1].t # "list"

\* for key in totals: h = hours[key]; if h > 0: append(totals[key] / h)
RECURSIVE build_site_day_avgs(_, _)
build_site_day_avgs(tot, hrs) ==
    IF tot = <<>> THEN <<>>
    ELSE LET h == dict_get(hrs, Head(tot).key, 0)
             rest == build_site_day_avgs(Tail(tot), hrs)
         IN  IF h > 0 THEN <<NumDiv(Head(tot).val, h)>> \o rest ELSE rest

\* reading hours[key] of a defaultdict inserts a missing key with 0
RECURSIVE touch_hours(_, _)
touch_hours(tot, hrs) ==
    IF tot = <<>> THEN hrs
    ELSE touch_hours(Tail(tot),
                     IF Head(tot).key \in dict_keys(hrs) THEN hrs
                     ELSE Append(hrs, [key |-> Head(tot).key, val |-> 0]))

\* build_day_to_site_avgs that collects the site-day sums, undivided
RECURSIVE build_day_to_site_sums(_, _, _)
build_day_to_site_sums(items, tot, acc) ==
    IF items = <<>> THEN acc
    ELSE build_day_to_site_sums(Tail(items), tot,
            list_add(acc, Head(items).key[2],
                     dict_get(tot, Head(items).key, Fin(0, 1))))

\* for (site_id, date_str), _ in hours.items(): avg = totals[..] / hours[..]
RECURSIVE build_day_to_site_avgs(_, _, _)
build_day_to_site_avgs(items, tot, acc) ==
    IF items = <<>> THEN acc
    ELSE build_day_to_site_avgs(Tail(items), tot,
            list_add(acc, Head(items).key[2],
                     NumDiv(dict_get(tot, Head(items).key, Fin(0, 1)),
                            Head(items).val)))

(***************************************************************************)
(* Strings of ASCII codes: order, split and int().                         *)
(***************************************************************************)
RECURSIVE str_less(_, _)
str_less(a, b) ==
    IF b = <<>> THEN FALSE
    ELSE IF a = <<>> THEN TRUE
    ELSE IF Head(a) # Head(b) THEN Head(a) < Head(b)
    ELSE str_less(Tail(a), Tail(b))

RECURSIVE insert_sorted(_, _)
insert_sorted(x, s) ==
    IF s = <<>> THEN <<x>>
    ELSE IF str_less(x, Head(s)) THEN <<x>> \o s
    ELSE <<Head(s)>> \o insert_sorted(x, Tail(s))

RECURSIVE sort_strs(_)
sort_strs(s) == IF s = <<>> THEN <<>>
                ELSE insert_sorted(Head(s), sort_strs(Tail(s)))

\* sorted_keys that keeps the insertion order
unsorted_keys(dct) == [i \in 1..Len(dct) |-> dct[i].key]

\* sorted(day_to_site_avgs.keys())
sorted_keys(dct) == sort_strs([i \in 1..Len(dct) |-> dct[i].key])

\* d.split('-')[-1]
RECURSIVE last_field(_)
last_field(s) ==
    IF \A i \in 1..Len(s) : s[i] # Dash THEN s
    ELSE last_field(Tail(s))

\* int(text) of a string of decimal digits
RECURSIVE int_of(_)
int_of(s) == IF s = <<>> THEN 0
             ELSE 10 * int_of(SubSeq(s, 1, Len(s) - 1)) + (s[Len(s)] - 48)

day_of_month(d) == int_of(last_field(d))
(***************************************************************************)
(* Inputs: command lines and input files.                                  *)
(***************************************************************************)
ArgPath(readable) == [t |-> "path", v |-> IF readable THEN 1 ELSE 0]
ArgInt(n) == [t |-> "int", v |-> n]
ArgText == [t |-> "text", v |-> 0]

CommandLines ==
    {<<ArgPath(TRUE), ArgPath(TRUE), ArgInt(2022), ArgInt(7)>>,
     <<ArgPath(TRUE), ArgPath(TRUE), ArgInt(2022), ArgInt(13), ArgText>>,
     <<ArgPath(TRUE), ArgPath(FALSE), ArgInt(2022), ArgInt(7)>>,
     <<ArgPath(TRUE), ArgPath(TRUE), ArgText, ArgInt(7)>>,
     <<ArgPath(TRUE), ArgPath(TRUE), ArgInt(2022), ArgText>>}
ArgvSet == UNION {{SubSeq(a, 1, n) : n \in 1..Len(a)} : a \in CommandLines}

Jul1Sec   == TsNum(1656634)
Jul1Ms    == TsNum(1656634000)
Jul2Z     == TsStr(<<2022, 7, 2>>, 36000, 0, "Z", 0)
Jul10Junk == TsStr(<<2022, 7, 10>>, 36000, 3, "junk", 0)
Aug1Z     == TsStr(<<2022, 8, 1>>, 0, 0, "Z", 0)
Jul1Plus5 == TsStr(<<2022, 7, 1>>, 3600, 0, "off", 300)

Records ==
    {\* records of July 2022 with a site, a timestamp and a positive count
     [site_id |-> SStr("A"), timestamp |-> Jul1Sec, count |-> CNum(10)],
     [siteID |-> SStr("B"), Timestamp |-> Jul1Ms, value |-> CNum(100)],
     [site |-> SStr("B"), date |-> Jul2Z, COUNT |-> CNum(10)],
     [site_id |-> SStr("A"), id |-> SStr("B"), DATE |-> Jul10Junk,
      counts |-> CNum(20)],
     \* timestamps: none, another month, an offset, not a date
     [site_id |-> SStr("A"), count |-> CNum(10)],
     [site_id |-> SStr("A"), timestamp |-> Aug1Z, count |-> CNum(10)],
     [site_id |-> SStr("A"), timestamp |-> Jul1Plus5, count |-> CNum(10)],
     [site_id |-> SStr("A"), timestamp |-> TsText, count |-> CNum(10)],
     \* counts: none, zero, negative, a string, true, NaN, null first
     [site_id |-> SStr("A"), timestamp |-> Jul1Sec],
     [site_id |-> SStr("A"), timestamp |-> Jul1Sec, count |-> CNum(0)],
     [timestamp |-> TsText, count |-> CNum(-5)],
     [site_id |-> SStr("A"), timestamp |-> Jul1Sec, count |-> CStr],
     [site_id |-> SStr("A"), timestamp |-> Jul1Sec, count |-> CBool(1)],
     [site_id |-> SStr("A"), timestamp |-> Jul1Sec, count |-> CNaN],
     [site_id |-> SStr("A"), timestamp |-> Jul1Sec, counts |-> CNull,
      count |-> CNum(5)],
     \* sites: none, a list
     [timestamp |-> Jul1Sec, count |-> CNum(10)],
     [site_id |-> SList, timestamp |-> Jul1Sec, count |-> CNum(10)]}

Inputs == UNION {[1..n -> Records] : n \in 0..MaxRecs}

SecInputs == {100000 * k : k \in -MaxSecK..MaxSecK} \cup {1656634, 1700000}

(***************************************************************************)
(* main                                                                    *)
(***************************************************************************)
Line(kind, n) == [line |-> kind, n |-> n]

\* too_few_args with the count off by one
too_few_args_off_by_one(av) == Len(av) < 5

\* len(sys.argv) < 4
too_few_args(av) == Len(av) < 4

\* if not site_day_avgs
no_averages(avgs) == avgs = <<>>

Init ==
    /\ argv \in ArgvSet
    /\ pc = "start"
    /\ year = 0 /\ month = 0
    /\ data = <<>> /\ idx = 1
    /\ filtered = <<>> /\ accepted = <<>>
    /\ totals = <<>> /\ hours = <<>>
    /\ site_day_avgs = <<>> /\ day_to_site_avgs = <<>>
    /\ sorted_days = <<>> /\ x_values = <<>> /\ y_values = <<>>
    /\ stdout = <<>> /\ exit_status = -1
    /\ opened = FALSE /\ images = <<>> /\ plotted = <<>>
    /\ p_sec = 0 /\ r_sec = <<>> /\ r_ms = <<>>

\* lines 46-48
UsageCheck ==
    /\ pc = "start"
    /\ IF too_few_args(argv)
       THEN /\ stdout' = Append(stdout, Line("usage", 0))
            /\ exit_status' = 1
            /\ pc' = "exited"
       ELSE /\ pc' = "args"
            /\ UNCHANGED <<stdout, exit_status>>
    /\ UNCHANGED <<argv, year, month, data, idx, filtered, accepted, totals,
                   hours, site_day_avgs, day_to_site_avgs, sorted_days,
                   x_values, y_values, opened, images, plotted, parseVars>>

\* lines 50-52: int() of a non-numeric argument raises ValueError
ParseArgs ==
    /\ pc = "args"
    /\ IF argv[3].t = "int" /\ argv[4].t = "int"
       THEN /\ year' = argv[3].v
            /\ month' = argv[4].v
            /\ pc' = "open"
            /\ UNCHANGED exit_status
       ELSE /\ year' = IF argv[3].t = "int" THEN argv[3].v ELSE year
            /\ pc' = "crashed"
            /\ exit_status' = 1
            /\ UNCHANGED month
    /\ UNCHANGED <<argv, data, idx, filtered, accepted, totals, hours,
                   site_day_avgs, day_to_site_avgs, sorted_days, x_values,
                   y_values, stdout, opened, images, plotted, parseVars>>

\* lines 54-55: open() of a missing file raises; otherwise the whole array
\* is loaded
LoadData ==
    /\ pc = "open"
    /\ IF argv[2].v = 1
       THEN /\ \E d \in Inputs : data' = d
            /\ opened' = TRUE
            /\ pc' = "filter"
            /\ UNCHANGED exit_status
       ELSE /\ pc' = "crashed"
            /\ exit_status' = 1
            /\ UNCHANGED <<data, opened>>
    /\ UNCHANGED <<argv, year, month, idx, filtered, accepted, totals, hours,
                   site_day_avgs, day_to_site_avgs, sorted_days, x_values,
                   y_values, stdout, images, plotted, parseVars>>

\* lines 77-92: one iteration of the filter loop
FilterStep ==
    /\ pc = "filter"
    /\ idx <= Len(data)
    /\ LET smp == normalize(data[idx], year, month)
       IN  /\ filtered' = filtered \o smp
           /\ accepted' = IF smp = NoSample THEN accepted
                          ELSE Append(accepted, idx)
    /\ idx' = idx + 1
    /\ UNCHANGED <<argv, pc, year, month, data, totals, hours, site_day_avgs,
                   day_to_site_avgs, sorted_days, x_values, y_values, stdout,
                   exit_status, opened, images, plotted, parseVars>>

\* lines 95-97: the filter loop is over, the accumulators are created
FilterDone ==
    /\ pc = "filter"
    /\ idx > Len(data)
    /\ totals' = <<>> /\ hours' = <<>>
    /\ idx' = 1
    /\ pc' = "aggregate"
    /\ UNCHANGED <<argv, year, month, data, filtered, accepted, site_day_avgs,
                   day_to_site_avgs, sorted_days, x_values, y_values, stdout,
                   exit_status, opened, images, plotted, parseVars>>

\* lines 99-102: one iteration of the accumulation loop; hashing the key
\* of an unhashable site raises TypeError outside any try block
AggregateStep ==
    /\ pc = "aggregate"
    /\ idx <= Len(filtered)
    /\ LET key == <<filtered[idx].site, filtered[idx].date>>
       IN  IF hashable(key)
           THEN /\ totals' = totals_add(totals, key, filtered[idx].cnt)
                /\ hours' = hours_add(hours, key)
                /\ idx' = idx + 1
                /\ UNCHANGED <<pc, exit_status>>
           ELSE /\ pc' = "crashed"
                /\ exit_status' = 1
                /\ UNCHANGED <<totals, hours, idx>>
    /\ UNCHANGED <<argv, year, month, data, filtered, accepted, site_day_avgs,
                   day_to_site_avgs, sorted_days, x_values, y_values, stdout,
                   opened, images, plotted, parseVars>>

\* lines 104-108
BuildAverages ==
    /\ pc = "aggregate"
    /\ idx > Len(filtered)
    /\ site_day_avgs' = build_site_day_avgs(totals, hours)
    /\ hours' = touch_hours(totals, hours)
    /\ pc' = "report"
    /\ UNCHANGED <<argv, year, month, data, idx, filtered, accepted, totals,
                   day_to_site_avgs, sorted_days, x_values, y_values, stdout,
                   exit_status, opened, images, plotted, parseVars>>

\* lines 110-118: the values of the mean, median and min/max lines are
\* formatted for display only and are not kept
Report ==
    /\ pc = "report"
    /\ IF no_averages(site_day_avgs)
       THEN /\ stdout' = Append(stdout, Line("nodata", 0))
            /\ exit_status' = 0
            /\ pc' = "done"
       ELSE /\ stdout' = stdout \o
                 <<Line("month", month),
                   Line("sitedays", Len(site_day_avgs)),
                   Line("mean", 0), Line("median", 0), Line("minmax", 0)>>
            /\ pc' = "daylevel"
            /\ UNCHANGED exit_status
    /\ UNCHANGED <<argv, year, month, data, idx, filtered, accepted, totals,
                   hours, site_day_avgs, day_to_site_avgs, sorted_days,
                   x_values, y_values, opened, images, plotted, parseVars>>

\* lines 122-131: a zero in hours raises ZeroDivisionError
DayLevel ==
    /\ pc = "daylevel"
    /\ IF \E i \in 1..Len(hours) : hours[i].val = 0
       THEN /\ pc' = "crashed"
            /\ exit_status' = 1
            /\ UNCHANGED <<day_to_site_avgs, sorted_days, x_values, y_values>>
       ELSE LET dts == build_day_to_site_avgs(hours, totals, <<>>)
                days == sorted_keys(dts)
            IN  /\ day_to_site_avgs' = dts
                /\ sorted_days' = days
                /\ y_values' = [i \in 1..Len(days) |->
                                   mean(dict_get(dts, days[i], <<>>))]
                /\ x_values' = [i \in 1..Len(days) |-> day_of_month(days[i])]
                /\ pc' = "plot"
                /\ UNCHANGED exit_status
    /\ UNCHANGED <<argv, year, month, data, idx, filtered, accepted, totals,
                   hours, site_day_avgs, stdout, opened, images, plotted,
                   parseVars>>

\* lines 134-144
Plot ==
    /\ pc = "plot"
    /\ plotted' = Append(plotted, [x |-> x_values, y |-> y_values])
    /\ images' = Append(images, <<year, month>>)
    /\ stdout' = Append(stdout, Line("saved", month))
    /\ exit_status' = 0
    /\ pc' = "done"
    /\ UNCHANGED <<argv, year, month, data, idx, filtered, accepted, totals,
                   hours, site_day_avgs, day_to_site_avgs, sorted_days,
                   x_values, y_values, opened, parseVars>>

Next ==
    \/ UsageCheck
    \/ ParseArgs
    \/ LoadData
    \/ FilterStep
    \/ FilterDone
    \/ AggregateStep
    \/ BuildAverages
    \/ Report
    \/ DayLevel
    \/ Plot

Spec == Init /\ [][Next]_vars

(***************************************************************************)
(* parse_ts applied to a number of seconds and to its millisecond form.    *)
(***************************************************************************)
InitParse ==
    /\ argv = <<>> /\ pc = "idle"
    /\ year = 0 /\ month = 0
    /\ data = <<>> /\ idx = 1
    /\ filtered = <<>> /\ accepted = <<>>
    /\ totals = <<>> /\ hours = <<>>
    /\ site_day_avgs = <<>> /\ day_to_site_avgs = <<>>
    /\ sorted_days = <<>> /\ x_values = <<>> /\ y_values = <<>>
    /\ stdout = <<>> /\ exit_status = -1
    /\ opened = FALSE /\ images = <<>> /\ plotted = <<>>
    /\ p_sec \in SecInputs /\ r_sec = <<>> /\ r_ms = <<>>

\* parse_ts(s) for the number s = 1000 * p_sec
ParseSeconds ==
    /\ r_sec = <<>>
    /\ r_sec' = <<parse_ts(TsNum(p_sec))>>
    /\ UNCHANGED <<mainVars, p_sec, r_ms>>

\* parse_ts(1000 * s)
ParseMillis ==
    /\ r_ms = <<>>
    /\ r_ms' = <<parse_ts(TsNum(1000 * p_sec))>>
    /\ UNCHANGED <<mainVars, p_sec, r_sec>>

NextParse == ParseSeconds \/ ParseMillis

SpecParse == InitParse /\ [][NextParse]_vars
(***************************************************************************)
(* Properties.                                                             *)
(***************************************************************************)
\* day number of a civil date, counted from 1970-01-01
days_from_civil(y0, m, d) ==
    LET y   == IF m <= 2 THEN y0 - 1 ELSE y0
        era == y \div 400
        yoe == y - era * 400
        mp  == IF m > 2 THEN m - 3 ELSE m + 9
        doy == ((153 * mp + 2) \div 5) + d - 1
        doe == yoe * 365 + (yoe \div 4) - (yoe \div 100) + doy
    IN  era * 146097 + doe - 719468

\* The instant of a datetime as <<day number, second of day>> in UTC.
\* A naive value is read as it stands.
UtcInstant(dt) ==
    LET secs == dt.sod - (IF dt.aware THEN 60 * dt.off ELSE 0)
        day  == days_from_civil(dt.y, dt.m, dt.d) + (secs \div SecPerDay)
    IN  <<day, secs % SecPerDay>>
UtcDate(dt) == civil_from_days(UtcInstant(dt)[1])

\* the record behind the i-th accepted sample, and its parsed timestamp
RecOf(i) == data[accepted[i]]
ParsedOf(i) == parse_ts(get_timestamp(RecOf(i)).val)

\* the filter loop has looked at record j
Seen(j) == (pc = "filter" /\ j < idx) \/ (pc \notin {"filter"} /\ opened)

\* the accumulation pass over the accepted samples is over
AggregationOver ==
    \/ pc \in {"report", "daylevel", "plot"}
    \/ pc = "done" /\ opened

\* the chart has been drawn
Charted == pc = "done" /\ plotted # <<>>

Pairs == {<<filtered[i].site, filtered[i].date>> : i \in 1..Len(filtered)}
Dates == {filtered[i].date : i \in 1..Len(filtered)}

\* the counts of the accepted samples of one (site, date) key, in order
CountsOf(key) ==
    LET Has(smp) == <<smp.site, smp.date>> = key
        sel == SelectSeq(filtered, Has)
    IN  [i \in 1..Len(sel) |-> sel[i].cnt]

\* sum / n of the samples of a key
SiteDayAverage(key) == NumDiv(NumSum(CountsOf(key)), Len(CountsOf(key)))

RECURSIVE SumOfAverages(_)
SumOfAverages(keys) ==
    IF keys = {} THEN Fin(0, 1)
    ELSE LET k == CHOOSE x \in keys : TRUE
         IN  NumAdd(SiteDayAverage(k), SumOfAverages(keys \ {k}))

\* the unweighted mean of the site-day averages of one date
CrossSiteDayAverage(date) ==
    LET keys == {k \in Pairs : k[2] = date}
    IN  NumDiv(SumOfAverages(keys), Cardinality(keys))

\* the mean of all raw counts of one date
RawDayAverage(date) ==
    LET On(smp) == smp.date = date
        sel == SelectSeq(filtered, On)
    IN  mean([i \in 1..Len(sel) |-> sel[i].cnt])

HasLine(kind) == \E i \in 1..Len(stdout) : stdout[i].line = kind

\* C1: every record appended to filtered has a parsed timestamp of the
\* requested year and month, its sample carries the date of that timestamp,
\* and every key of totals and hours is a date of the requested month.
C1_MonthFilter ==
    /\ Len(accepted) = Len(filtered)
    /\ \A i \in 1..Len(accepted) :
          /\ ParsedOf(i).ok
          /\ ParsedOf(i).y = year /\ ParsedOf(i).m = month
          /\ filtered[i].date = isoformat(ParsedOf(i))
    /\ \A k \in dict_keys(totals) \cup dict_keys(hours) :
          /\ int_of(SubSeq(k[2], 1, 4)) = year
          /\ int_of(SubSeq(k[2], 6, 7)) = month

\* a run that accepted a record and skipped a well-formed one of another
\* month has ended with the chart
C1_Witness ==
    /\ pc = "done" /\ accepted # <<>> /\ totals # <<>>
    /\ \E j \in 1..Len(data) :
          /\ \A i \in 1..Len(accepted) : accepted[i] # j
          /\ count_ok(get_counts(data[j]))
          /\ parse_ts(get_timestamp(data[j]).val).ok
          /\ parse_ts(get_timestamp(data[j]).val).m # month

\* C2: after the aggregation pass the keys of totals and of hours are the
\* distinct (site, date) pairs of the accepted samples, each key once; the
\* average of a key is the sum of its samples' counts over their number
\* n >= 1; the printed number of site-days is the number of pairs.
C2_SiteDayAverages ==
    AggregationOver =>
        /\ dict_keys(totals) = Pairs /\ dict_keys(hours) = Pairs
        /\ Len(totals) = Cardinality(Pairs) /\ Len(hours) = Cardinality(Pairs)
        /\ \A i \in 1..Len(totals) :
              LET key == totals[i].key
                  n == Len(CountsOf(key))
              IN  /\ n >= 1
                  /\ dict_get(hours, key, 0) = n
                  /\ totals[i].val = NumSum(CountsOf(key))
                  /\ pc # "report" =>
                        /\ Len(site_day_avgs) = Len(totals)
                        /\ site_day_avgs[i] = SiteDayAverage(key)
        /\ \A i \in 1..Len(stdout) :
              stdout[i].line = "sitedays" => stdout[i].n = Cardinality(Pairs)

\* a finished run with two keys, one of them with two samples
C2_Witness ==
    /\ pc = "done" /\ HasLine("sitedays")
    /\ Cardinality(Pairs) >= 2
    /\ \E k \in Pairs : Len(CountsOf(k)) >= 2

\* C3: for every date among the accepted samples the plotted value of that
\* date is the unweighted mean of the site-day averages of that date.
C3_CrossSiteMean ==
    Charted =>
        \A d \in Dates :
            \E i \in 1..Len(sorted_days) :
                /\ sorted_days[i] = d
                /\ plotted[1].y[i] = CrossSiteDayAverage(d)

\* a chart with a date whose cross-site mean is not the mean of its raw
\* counts
C3_Witness ==
    /\ Charted
    /\ \E d \in Dates :
          /\ Cardinality({k \in Pairs : k[2] = d}) >= 2
          /\ CrossSiteDayAverage(d) # RawDayAverage(d)

\* a finite number: not a string, a boolean, null, NaN or an infinity
FiniteNumber(cnt) == cnt.t = "num"

\* C4: a record with no count alias, or whose first count alias holds no
\* finite number or a number <= 0, is never appended to filtered.
C4_BadCountRejected ==
    \A j \in 1..Len(data) :
        LET k == FirstKey(data[j], CountAliases)
            bad == \/ k = NoKey
                   \/ ~FiniteNumber(data[j][k])
                   \/ data[j][k].v <= 0
        IN  Seen(j) /\ bad => \A i \in 1..Len(accepted) : accepted[i] # j

\* the number 1000*k read as milliseconds, and read as seconds
AsMillis(k) == fromtimestamp_units(k)
AsSeconds(k) == fromtimestamp_thousands(k)
SameInstant(a, b) == a.ok /\ b.ok /\ UtcInstant(a) = UtcInstant(b)

\* C5 as stated: a number is read as milliseconds exactly when its
\* magnitude exceeds 10^12, and s and 1000*s parse to the same instant
\* whenever the magnitude of 1000*s exceeds 10^12.
C5_MagnitudeRule ==
    /\ r_sec # <<>> =>
          r_sec[1] = IF Abs(p_sec) > MsThreshold THEN AsMillis(p_sec)
                     ELSE AsSeconds(p_sec)
    /\ r_ms # <<>> =>
          r_ms[1] = IF Abs(1000 * p_sec) > MsThreshold
                    THEN AsMillis(1000 * p_sec)
                    ELSE AsSeconds(1000 * p_sec)
    /\ r_sec # <<>> /\ r_ms # <<>> /\ Abs(1000 * p_sec) > MsThreshold =>
          SameInstant(r_sec[1], r_ms[1])

\* C5 as amended: a number is read as milliseconds exactly when it is
\* itself greater than 10^12, and s and 1000*s parse to the same instant
\* whenever 1000*s is greater than 10^12 and s is not.
C5_SignedRule ==
    /\ r_sec # <<>> =>
          r_sec[1] = IF p_sec > MsThreshold THEN AsMillis(p_sec)
                     ELSE AsSeconds(p_sec)
    /\ r_ms # <<>> =>
          r_ms[1] = IF 1000 * p_sec > MsThreshold
                    THEN AsMillis(1000 * p_sec)
                    ELSE AsSeconds(1000 * p_sec)
    /\ r_sec # <<>> /\ r_ms # <<>>
       /\ 1000 * p_sec > MsThreshold /\ p_sec <= MsThreshold =>
          SameInstant(r_sec[1], r_ms[1])

\* 1700000000 and 1700000000000 have both been parsed
C5_Witness ==
    /\ p_sec = 1700000
    /\ r_sec # <<>> /\ r_ms # <<>>
    /\ SameInstant(r_sec[1], r_ms[1])
    /\ <<r_ms[1].y, r_ms[1].m, r_ms[1].d>> = <<2023, 11, 14>>

\* C6: the date of every accepted sample, and the year and month the
\* filter compared, are those of the record's instant in UTC.
C6_UtcDate ==
    \A i \in 1..Len(accepted) :
        LET utc == UtcDate(ParsedOf(i))
        IN  /\ filtered[i].date = isoformat([y |-> utc[1], m |-> utc[2],
                                             d |-> utc[3]])
            /\ utc[1] = year /\ utc[2] = month

\* record-level malformed data: a missing site, timestamp or count key, a
\* field of the wrong type, an unparseable timestamp, a non-positive count
Malformed(rec) ==
    LET ks == FirstKey(rec, SiteAliases)
        kt == FirstKey(rec, TsAliases)
        kc == FirstKey(rec, CountAliases)
    IN  \/ ks = NoKey \/ kt = NoKey \/ kc = NoKey
        \/ rec[ks].t # "str"
        \/ rec[kt].t \notin {"num", "str"}
        \/ rec[kc].t \notin {"num", "nan", "inf"}
        \/ ~parse_ts(rec[kt]).ok
        \/ rec[kc].t = "num" /\ rec[kc].v <= 0

WellFormed(rec) == ~Malformed(rec)

\* the whole filter loop, and the whole accumulation pass, on an input
RECURSIVE filter_all(_, _, _)
filter_all(d, y, m) ==
    IF d = <<>> THEN <<>>
    ELSE normalize(Head(d), y, m) \o filter_all(Tail(d), y, m)

RECURSIVE totals_of(_, _)
totals_of(f, acc) ==
    IF f = <<>> THEN acc
    ELSE totals_of(Tail(f),
                   totals_add(acc, <<Head(f).site, Head(f).date>>, Head(f).cnt))

RECURSIVE hours_of(_, _)
hours_of(f, acc) ==
    IF f = <<>> THEN acc
    ELSE hours_of(Tail(f), hours_add(acc, <<Head(f).site, Head(f).date>>))

\* C7: malformed records never abort the run, and the site-day results of
\* a finished run are those of the input with the malformed records
\* removed.
C7_MalformedSkipped ==
    /\ opened => pc # "crashed"
    /\ pc = "done" /\ opened =>
          LET clean == filter_all(SelectSeq(data, WellFormed), year, month)
          IN  /\ totals = totals_of(clean, <<>>)
              /\ hours = hours_of(clean, <<>>)

\* the run has ended, normally or not, after the input was loaded
Ended == opened /\ pc \in {"done", "crashed"}

\* C8: with no accepted sample the run prints the no-data notice alone and
\* writes no image, at any time; with an accepted sample the run ends with
\* the statistics printed and exactly one image written.
C8_EmptyOrChart ==
    /\ opened /\ pc # "filter" /\ filtered = <<>> =>
          /\ ~HasLine("month") /\ ~HasLine("sitedays") /\ images = <<>>
          /\ pc = "done" => stdout = <<Line("nodata", 0)>> /\ exit_status = 0
    /\ Ended /\ filtered # <<>> =>
          /\ HasLine("month") /\ HasLine("sitedays") /\ HasLine("mean")
          /\ HasLine("median") /\ HasLine("minmax")
          /\ ~HasLine("nodata")
          /\ Len(images) = 1

\* C9: with fewer than four entries in argv the run prints the usage line
\* and exits with status 1 without converting an argument or opening the
\* file; with four or more it never prints the usage line.
C9_Usage ==
    /\ Len(argv) < 4 =>
          /\ pc \in {"start", "exited"}
          /\ ~opened /\ data = <<>> /\ year = 0 /\ month = 0
          /\ pc = "exited" =>
                stdout = <<Line("usage", 0)>> /\ exit_status = 1
    /\ Len(argv) >= 4 => ~HasLine("usage") /\ pc # "exited"

\* the usage exit was taken with two positional arguments
C9_Witness == pc = "exited" /\ Len(argv) = 3 /\ HasLine("usage")

\* C10: the plotted series has one point per distinct date of the accepted
\* samples, its x-values are days of the month in strictly increasing
\* order, and the point of each accepted sample's day carries the
\* cross-site mean of that sample's date.
C10_Series ==
    Charted =>
        LET x == plotted[1].x
            y == plotted[1].y
        IN  /\ Len(x) = Cardinality(Dates) /\ Len(y) = Cardinality(Dates)
            /\ \A i \in 1..Len(x) : x[i] \in 1..31
            /\ \A i \in 1..Len(x) - 1 : x[i] < x[i + 1]
            /\ \A j \in 1..Len(accepted) :
                  \E i \in 1..Len(x) :
                      /\ x[i] = ParsedOf(j).d
                      /\ y[i] = CrossSiteDayAverage(filtered[j].date)

\* a chart of several days that were first seen out of order
C10_Witness ==
    /\ Charted
    /\ Len(plotted[1].x) >= 2
    /\ day_to_site_avgs[1].key # sorted_days[1]
====
